---- MODULE Spec2Model ----
(***************************************************************************)
(* RDirScan (src/src/main.rs): a directory scanner.  main() turns every    *)
(* wordlist line into a check_path future and drives the futures through   *)
(* buffer_unordered(args.threads); every successful response is classified *)
(* under the ScanState mutex (is_filtered || check_repeated_size) and, if  *)
(* not filtered, appended to out.txt under the output-file mutex.          *)
(*                                                                         *)
(* A candidate path is its index in `paths`, the vector main() collects     *)
(* from the wordlist.  A wordlist line and a response body are sequences   *)
(* of characters; the size of a body is its length.                        *)
(***************************************************************************)
EXTENDS Integers, Sequences, FiniteSets, TLC

\* ---------------------------------------------------------------- bounds
NumPaths == 6          \* candidate paths in the wordlist (Spec)
LongRun == 10          \* candidate paths against the uniform site (SoftSpec)
MaxLines == 4          \* lines of the wordlist file (LoadSpec)

\* ------------------------------------------------------ program constants
Threshold == 5         \* `*count >= 5` in check_repeated_size

\* Bodies the target may answer with: two sizes, each with and without the
\* fragment "s" that a filter file may list.
Bodies == { <<"a">>, <<"s">>, <<"a", "a">>, <<"a", "s">> }
Sizes == { Len(b) : b \in Bodies }

\* The fragments ScanState::from_file loads from the filter file.  (A run
\* without --filter behaves as this one does on bodies without "s".)
FilterFile == { <<"s">> }

\* Values of --threads explored; clap accepts any usize, 0 included.
ThreadCounts == { 0, 1, 2 }

\* Status codes the target may answer with.
Statuses == { 204, 301 }

\* Errors of send(): e.is_timeout(), e.is_connect(), any other.
SendErrors == { "timeout", "connect", "request" }

\* What send().await and resp.text().await can resolve to.
Responses == { << "Err", e >> : e \in SendErrors } \cup { << "Ok", st >> : st \in Statuses }
Texts == { << "Err", << >> >> } \cup { << "Ok", b >> : b \in Bodies }

\* A target of which nothing is known: base.join may fail, send() may fail or
\* bring any status, the body may be unreadable or any of Bodies.
AnySite == [ joins |-> BOOLEAN, responses |-> Responses, texts |-> Texts ]

\* A target that answers every path with 204 and one of two pages without
\* the fragment "s" (the soft-404 situation check_repeated_size is for).
SoftSite == [ joins |-> { TRUE },
              responses |-> { << "Ok", 204 >> },
              texts |-> { << "Ok", << "a" >> >>, << "Ok", << "a", "a" >> >> } ]

\* char::is_whitespace, on the characters used here.
Whitespace == { " " }

\* The lines a wordlist file may hold.
Lines == { << "a" >>, << "l" >>, << "#", "c" >>, << >>, << " " >>,
           << " ", "#" >> }

\* A target that answers every path with 204 and the same page.
PlainSite == [ joins |-> { TRUE },
               responses |-> { << "Ok", 204 >> },
               texts |-> { << "Ok", << "a" >> >> } ]

\* The wordlist files explored: up to MaxLines lines.
Wordlists == UNION { [ 1..n -> Lines ] : n \in 0..MaxLines }

\* A wordlist of n candidate lines.
Candidates(n) == [ k \in 1..n |-> << "a" >> ]

\* stdin before the operator has typed a line.
NoLine == "<none>"

VARIABLES
    wordlist,            \* the lines of the file args.dict
    paths,               \* main's `paths`: the lines kept as candidate paths
    stage,               \* main(): "load" the wordlist, "scan", or "fatal"
                         \* (main returned Err before the scan)
    site,                \* what the target can answer (AnySite, SoftSite)
    stdin_line,          \* the line the operator typed for read_line
    threads,             \* args.threads
    content_signatures,  \* ScanState.content_signatures
    size_counter,        \* ScanState.size_counter; 0 stands for "no entry"
    filtered_sizes,      \* ScanState.filtered_sizes
    next_path,           \* position of the paths iterator (next to yield)
    stream_done,         \* the iterator has returned None to buffer_unordered
    pc,                  \* where each path's check_path future stands
    status,              \* the status of the response a future holds (0: none)
    content,             \* the body a future holds after resp.text()
    state_lock,          \* holder of the scan_state mutex (0 = free)
    file_lock,           \* holder of the output_file mutex (0 = free)
    out_file,            \* lines of out.txt: <<path, size>>
    confirmed,           \* responses whose `is_filtered` (line 277) came out
                         \* false, in the order they were classified
    asked,               \* the questions put to the operator (lines 153-154),
                         \* in order: the asking path and the size
    last_line,           \* the line printed last, on stdout or stderr
    finished             \* collect() returned; "scan complete" was printed

vars == << wordlist, paths, stage, site, stdin_line, threads,
           content_signatures, size_counter, filtered_sizes,
           next_path, stream_done, pc, status, content, state_lock, file_lock,
           out_file, confirmed, asked,
           last_line, finished >>

\* --------------------------------------------------------------- helpers

\* The candidate paths: the indices of `paths`.
Paths == 1..Len(paths)

\* str::contains: sig occurs in body as a contiguous substring.
Contains(body, sig) ==
    \E i \in 1..(Len(body) - Len(sig) + 1) :
        SubSeq(body, i, i + Len(sig) - 1) = sig

\* is_filtered without its test of filtered_sizes.
is_filtered_by_signature_only(body, size) ==
    \E sig \in content_signatures : Contains(body, sig)

\* is_filtered without its loop over the signatures.
is_filtered_by_size_only(body, size) == size \in filtered_sizes

\* ScanState::is_filtered
is_filtered(body, size) ==
    \/ \E sig \in content_signatures : Contains(body, sig)
    \/ size \in filtered_sizes

\* An insert that forgets the sizes filtered before.
Inserted_alone(size) == { size }

\* filtered_sizes.insert(size)
Inserted(size) == filtered_sizes \cup { size }

\* A decline that leaves the counter where it is.
Removed_not(size) == size_counter

\* size_counter.entry(size).or_insert(0); *count += 1
\* (the map never keeps a 0: or_insert(0) is incremented at once, so a missing
\* key and the value 0 are the same thing here)
Incremented(size) == [ size_counter EXCEPT ![size] = @ + 1 ]

\* size_counter.remove(&size)
Removed(size) == [ size_counter EXCEPT ![size] = 0 ]

\* The threshold test written with > for >=.
AsksOperator_after(count, size) == count > Threshold /\ size \notin filtered_sizes

\* `*count >= 5 && !self.filtered_sizes.contains(&size)`
AsksOperator(count, size) == count >= Threshold /\ size \notin filtered_sizes

\* The lines the operator may type, trimmed as input.trim() leaves them.
Answers == { "y", "Y", "n", "" }

\* A comparison with "y" that minds the case.
IsYes_exact(input) == input = "y"

\* input.trim().eq_ignore_ascii_case("y")
IsYes(input) == input \in { "y", "Y" }

\* A success test that also takes redirects.
is_success_or_redirect(code) == 200 <= code /\ code <= 399

\* StatusCode::is_success
is_success(code) == 200 <= code /\ code <= 299

\* The futures buffer_unordered holds: admitted and not yet finished.
InProgress == { p \in Paths : pc[p] \notin { "queued", "done" } }

\* The admission test written with <= for <.
HasRoom_inclusive == Cardinality(InProgress) <= threads

\* buffer_unordered: `while in_progress_queue.len() < max`
HasRoom == Cardinality(InProgress) < threads

\* An operator question that would not hold the polling thread.
Blocked_never == FALSE

\* stdin().read_line() is a blocking call made inside a poll: the thread that
\* polls every future of the stream stands still while it waits.
Blocked == \E p \in Paths : pc[p] = "prompt"

\* A lock that is granted whoever holds it.
Free_always(holder) == TRUE

\* tokio Mutex::lock resolves only when nobody holds the mutex.
Free(holder) == holder = 0

\* The two branches of `if is_filtered` exchanged.
Colour_exchanged(filtered) == IF filtered THEN "red" ELSE "purple"

\* `if is_filtered { println!(purple) } else { println!(red); write }`
Colour(filtered) == IF filtered THEN "purple" ELSE "red"

\* The line written to out.txt: "{url} (大小: {content_length} 字节)"
Line(p) == << p, Len(content[p]) >>

\* A wrapper that lets a connection failure end the stream.
Aborts_on_connect(kind) == kind = "connect"

\* Whether an Err from check_path ends the stream: the wrapper (lines 375-377)
\* prints it and yields (), so it never does.
Aborts(kind) == FALSE

\* str::trim_start / str::trim_end / str::trim
RECURSIVE trim_start(_)
trim_start(line) ==
    IF line # << >> /\ Head(line) \in Whitespace
    THEN trim_start(Tail(line))
    ELSE line

RECURSIVE trim_end(_)
trim_end(line) ==
    IF line # << >> /\ line[Len(line)] \in Whitespace
    THEN trim_end(SubSeq(line, 1, Len(line) - 1))
    ELSE line

trim(line) == trim_end(trim_start(line))

\* str::starts_with(char)
starts_with(line, ch) == line # << >> /\ Head(line) = ch

\* The filter closure with is_empty() taken of the line itself.
is_candidate_untrimmed(line) == line # << >> /\ ~starts_with(line, "#")

\* The filter closure of the wordlist reader:
\* |line| !line.trim().is_empty() && !line.starts_with('#')
is_candidate(line) == trim(line) # << >> /\ ~starts_with(line, "#")

config == << wordlist, paths, stage, site, threads, content_signatures >>
task == << status, content >>
detection == << size_counter, filtered_sizes >>
stream == << next_path, stream_done >>
locks == << state_lock, file_lock >>
output == << out_file, confirmed, asked, last_line >>

\* ------------------------------------------------------------------ Init
\* ScanState::from_file (or ::new), the empty out.txt, the futures not yet
\* polled.
Fresh ==
    /\ stdin_line = NoLine
    /\ content_signatures = FilterFile
    /\ size_counter = [ s \in Sizes |-> 0 ]
    /\ filtered_sizes = {}
    /\ next_path = 1
    /\ stream_done = FALSE
    /\ pc = [ p \in Paths |-> "queued" ]
    /\ status = [ p \in Paths |-> 0 ]
    /\ content = [ p \in Paths |-> << >> ]
    /\ state_lock = 0
    /\ file_lock = 0
    /\ out_file = << >>
    /\ confirmed = << >>
    /\ asked = << >>
    /\ last_line = << "start" >>
    /\ finished = FALSE

\* main() has read a wordlist of NumPaths candidate lines; the target is
\* unknown.
Init ==
    /\ wordlist = Candidates(NumPaths)
    /\ paths = wordlist
    /\ stage = "scan"
    /\ site = AnySite
    /\ threads \in ThreadCounts
    /\ Fresh

\* The same against the uniform site, with a wordlist long enough for the
\* counters to reach the threshold twice.
SoftInit ==
    /\ wordlist = Candidates(LongRun)
    /\ paths = wordlist
    /\ stage = "scan"
    /\ site = SoftSite
    /\ threads = 1
    /\ Fresh

\* main() before it reads the wordlist file.
LoadInit ==
    /\ wordlist \in Wordlists
    /\ paths = << >>
    /\ stage = "load"
    /\ site = PlainSite
    /\ threads \in { 1, 2 }
    /\ Fresh

\* --------------------------------------------------------------- actions

\* Lines 339-350 and 369: the lines of the wordlist that pass the filter are
\* collected into `paths`; none left is a fatal error, otherwise one future
\* per path is made.
Load ==
    /\ stage = "load"
    /\ paths' = SelectSeq(wordlist, is_candidate)
    /\ stage' = IF paths' = << >> THEN "fatal" ELSE "scan"
    /\ pc' = [ p \in 1..Len(paths') |-> "queued" ]
    /\ status' = [ p \in 1..Len(paths') |-> 0 ]
    /\ content' = [ p \in 1..Len(paths') |-> << >> ]
    /\ UNCHANGED << wordlist, site, threads, content_signatures, detection,
                    stream, locks, output, finished, stdin_line >>

\* check_path returned Err(kind), before it took any lock; the wrapper
\* prints the error line.
Fail(p, kind) ==
    /\ pc' = [ pc EXCEPT ![p] = "done" ]
    /\ status' = [ status EXCEPT ![p] = 0 ]
    /\ content' = [ content EXCEPT ![p] = << >> ]
    /\ last_line' = << "error", p >>
    /\ finished' = Aborts(kind)
    /\ UNCHANGED << config, detection, stream, locks, out_file, confirmed,
                    asked, stdin_line >>

\* check_path returns Ok(true): the guards it holds are dropped.
Return(p) ==
    /\ pc' = [ pc EXCEPT ![p] = "done" ]
    /\ content' = [ content EXCEPT ![p] = << >> ]
    /\ UNCHANGED status
    /\ state_lock' = 0
    /\ file_lock' = 0

\* Lines 280-288, once `is_filtered` is known: the finding line is printed in
\* its colour; a purple one ends the call, a red one goes on to the file lock.
Report(p, filtered) ==
    /\ last_line' = << Colour(filtered), p, Len(content[p]) >>
    /\ confirmed' = IF filtered THEN confirmed ELSE Append(confirmed, Line(p))
    /\ IF Colour(filtered) = "purple"
       THEN Return(p)
       ELSE /\ pc' = [ pc EXCEPT ![p] = "lock_file" ]
            /\ state_lock' = p
            /\ UNCHANGED << task, file_lock >>
    /\ UNCHANGED << config, stream, out_file, asked, finished >>

\* buffer_unordered pulls the next future from the iterator.
Admit ==
    /\ ~finished /\ ~Blocked
    /\ ~stream_done /\ HasRoom
    /\ next_path <= Len(paths)
    /\ pc' = [ pc EXCEPT ![next_path] = "start" ]
    /\ next_path' = next_path + 1
    /\ UNCHANGED << config, detection, stream_done, task, locks, output,
                    finished, stdin_line >>

\* buffer_unordered polls the iterator and gets None.
EndOfStream ==
    /\ ~finished /\ ~Blocked
    /\ ~stream_done /\ HasRoom
    /\ next_path > Len(paths)
    /\ stream_done' = TRUE
    /\ UNCHANGED << config, detection, next_path, pc, task, locks, output,
                    finished, stdin_line >>

\* First poll of check_path: base.join(path), then client.get(url).send().
Start(p) ==
    /\ ~finished /\ ~Blocked
    /\ pc[p] = "start"
    /\ \E joined \in site.joins :
        IF joined
        THEN /\ pc' = [ pc EXCEPT ![p] = "send" ]
             /\ UNCHANGED << config, detection, stream, task, locks, output,
                             finished, stdin_line >>
        ELSE Fail(p, "join")

\* send().await resolves: an error, or a response with its status.
Respond(p) ==
    /\ ~finished /\ ~Blocked
    /\ pc[p] = "send"
    /\ \E r \in site.responses :
        IF r[1] = "Err"
        THEN Fail(p, r[2])
        ELSE /\ pc' = [ pc EXCEPT ![p] = "response" ]
             /\ status' = [ status EXCEPT ![p] = r[2] ]
             /\ UNCHANGED << config, detection, stream, content, locks, output,
                             finished, stdin_line >>

\* Lines 266-273 and 296: a success reads the body with resp.text().await,
\* any other status returns Ok(false).
ReadBody(p) ==
    /\ ~finished /\ ~Blocked
    /\ pc[p] = "response"
    /\ IF is_success(status[p])
       THEN \E r \in site.texts :
            IF r[1] = "Ok"
            THEN /\ content' = [ content EXCEPT ![p] = r[2] ]
                 /\ status' = [ status EXCEPT ![p] = 0 ]
                 /\ pc' = [ pc EXCEPT ![p] = "lock_state" ]
                 /\ UNCHANGED << config, detection, stream, locks, output,
                                 finished, stdin_line >>
            ELSE Fail(p, "body")
       ELSE /\ pc' = [ pc EXCEPT ![p] = "done" ]
            /\ status' = [ status EXCEPT ![p] = 0 ]
            /\ UNCHANGED << config, detection, stream, content, locks, output,
                            finished, stdin_line >>

\* scan_state.lock().await resolves, and in the same poll
\* state.is_filtered(..) || state.check_repeated_size(..) runs up to the read
\* of stdin or to the finding line.
Classify(p) ==
    LET size == Len(content[p]) IN
    /\ ~finished /\ ~Blocked
    /\ pc[p] = "lock_state"
    /\ Free(state_lock)
    /\ UNCHANGED stdin_line
    /\ IF is_filtered(content[p], size)
       THEN \* short circuit: check_repeated_size is not called
            /\ Report(p, TRUE)
            /\ UNCHANGED detection
       ELSE /\ size_counter' = Incremented(size)
            /\ UNCHANGED filtered_sizes
            /\ IF size \in filtered_sizes
               THEN \* line 147: `return true`
                    Report(p, TRUE)
               ELSE IF AsksOperator(size_counter[size] + 1, size)
               THEN \* the question is printed; read_line blocks
                    /\ pc' = [ pc EXCEPT ![p] = "prompt" ]
                    /\ state_lock' = p
                    /\ last_line' = << "prompt", size >>
                    /\ asked' = Append(asked, << p, size >>)
                    /\ UNCHANGED << config, stream, task, file_lock, out_file,
                                    confirmed, finished >>
               ELSE Report(p, FALSE)

\* The operator types a line and presses return.
Type(p) ==
    /\ ~finished
    /\ pc[p] = "prompt"
    /\ stdin_line = NoLine
    /\ stdin_line' \in Answers
    /\ UNCHANGED << config, detection, stream, pc, task, locks, output,
                    finished >>

\* read_line returns the operator's line; the rest of check_repeated_size
\* runs, then lines 280-288.
Answer(p) ==
    LET size == Len(content[p]) IN
    /\ ~finished
    /\ pc[p] = "prompt"
    /\ stdin_line # NoLine
    /\ stdin_line' = NoLine
    /\ IF IsYes(stdin_line)
       THEN /\ filtered_sizes' = Inserted(size)
            /\ UNCHANGED size_counter
            /\ Report(p, TRUE)
       ELSE /\ size_counter' = Removed(size)
            /\ UNCHANGED filtered_sizes
            /\ Report(p, FALSE)

\* output_file.lock().await
LockFile(p) ==
    /\ ~finished /\ ~Blocked
    /\ pc[p] = "lock_file"
    /\ Free(file_lock)
    /\ file_lock' = p
    /\ pc' = [ pc EXCEPT ![p] = "write" ]
    /\ UNCHANGED << config, detection, stream, task, state_lock, output,
                    finished, stdin_line >>

\* writeln!(file, ..); return Ok(true)
Write(p) ==
    /\ ~finished /\ ~Blocked
    /\ pc[p] = "write"
    /\ out_file' = Append(out_file, Line(p))
    /\ Return(p)
    /\ UNCHANGED << config, detection, stream, confirmed, asked, last_line,
                    finished, stdin_line >>

\* collect() returns: the iterator is exhausted and no future is left; the
\* closing line is printed.
Finish ==
    /\ ~finished /\ ~Blocked
    /\ stream_done
    /\ InProgress = {}
    /\ finished' = TRUE
    /\ last_line' = << "complete" >>
    /\ UNCHANGED << config, detection, stream, pc, task, locks, out_file,
                    confirmed, asked, stdin_line >>

Next ==
    \/ Admit
    \/ EndOfStream
    \/ \E p \in Paths : Start(p)
    \/ \E p \in Paths : Respond(p)
    \/ \E p \in Paths : ReadBody(p)
    \/ \E p \in Paths : Classify(p)
    \/ \E p \in Paths : Type(p)
    \/ \E p \in Paths : Answer(p)
    \/ \E p \in Paths : LockFile(p)
    \/ \E p \in Paths : Write(p)
    \/ Finish

Spec == Init /\ [][Next]_vars

\* The scan against the uniform site.
SoftSpec == SoftInit /\ [][Next]_vars

\* main() from the reading of the wordlist on.
LoadNext ==
    \/ Load
    \/ stage = "scan" /\ Next

LoadSpec == LoadInit /\ [][LoadNext]_vars

\* The scheduling the code has: the runtime keeps polling the stream while a
\* future can move, and the operator answers every question.
FairSpec == Init /\ [][Next]_vars /\ WF_vars(Next)

\* ================================================================ claims

\* A response body holds one of the stored fragments.
Matches(body) == \E sig \in content_signatures : Contains(body, sig)

\* Path p's response is classified in this step (the step that takes the
\* detection-state lock).
Classified(p) == pc[p] = "lock_state" /\ pc'[p] # "lock_state"

\* Path p's response is classified in this step and counted: its size is not
\* filtered and its body matches no signature.
Counted(p) ==
    /\ Classified(p)
    /\ Len(content[p]) \notin filtered_sizes
    /\ ~Matches(content[p])

\* The lines of a file or of a log, as a set.
Range(seq) == { seq[i] : i \in 1..Len(seq) }

\* The tasks inside the classify-and-update section.
InSection == { p \in Paths : pc[p] \in { "prompt", "lock_file", "write" } }

\* ---------------------------------------------------------------- C1
\* C1: for a size that is neither filtered nor signature-matched, the counted
\* response that finds the counter at c raises it to c + 1 and asks the
\* operator exactly when c = 4 (the 5th since the counter was 0); a question
\* is only ever asked by such a response; the counter changes only by such a
\* response or by a decline, which puts it back to 0; so it never passes 5.
C1_Step ==
    /\ \A p \in Paths :
        LET s == Len(content[p]) IN
        /\ Counted(p) =>
            /\ size_counter'[s] = size_counter[s] + 1
            /\ (pc'[p] = "prompt") <=> (size_counter[s] = 4)
            /\ (asked' # asked) <=> (size_counter[s] = 4)
        /\ (pc[p] # "prompt" /\ pc'[p] = "prompt") =>
            /\ Counted(p)
            /\ asked' = Append(asked, << p, s >>)
    /\ \A s \in Sizes :
        size_counter'[s] # size_counter[s] =>
            \/ \E p \in Paths : Counted(p) /\ Len(content[p]) = s
            \/ \E p \in Paths :
                /\ pc[p] = "prompt" /\ pc'[p] # "prompt" /\ Len(content[p]) = s
                /\ s \notin filtered_sizes'
                /\ size_counter'[s] = 0
    /\ asked' # asked => \E p \in Paths : pc[p] # "prompt" /\ pc'[p] = "prompt"

C1_FifthAsksOnce ==
    /\ [][C1_Step]_vars
    /\ [](\A s \in Sizes : size_counter[s] <= 5)

\* Four size-1 findings were reported without a question and the fifth
\* size-1 response has raised the one question asked so far.
C1_Witness ==
    \E p \in Paths :
        /\ pc[p] = "prompt"
        /\ asked = << << p, 1 >> >>
        /\ Len(confirmed) = 4
        /\ \A i \in 1..4 : confirmed[i][2] = 1

\* ---------------------------------------------------------------- C2
\* C2: a successful response whose size is in filtered_sizes when it is
\* classified is Suppressed: its purple line is printed, the call returns at
\* once, no question is asked, and nothing reaches the result file or the
\* list of Confirmed findings.
C2_Step ==
    \A p \in Paths :
        (Classified(p) /\ Len(content[p]) \in filtered_sizes) =>
            /\ last_line' = << "purple", p, Len(content[p]) >>
            /\ pc'[p] = "done"
            /\ UNCHANGED << filtered_sizes, out_file, confirmed, asked >>

C2_FilteredSizeSuppressed == [][C2_Step]_vars

\* After the operator confirmed size s, a response of size s from another
\* path than the asking one has been printed purple.
C2_Witness ==
    \E s \in filtered_sizes : \E p \in Paths :
        /\ last_line = << "purple", p, s >>
        /\ Len(asked) = 1
        /\ asked[1][2] = s
        /\ asked[1][1] # p

\* ---------------------------------------------------------------- C3
\* C3: a successful response whose body contains a stored fragment is
\* Suppressed whatever its size and whatever size_counter and filtered_sizes
\* hold: purple line, immediate return, no question, no line in the result
\* file, and the detection state is left as it was.
C3_Step ==
    \A p \in Paths :
        (Classified(p) /\ Matches(content[p])) =>
            /\ last_line' = << "purple", p, Len(content[p]) >>
            /\ pc'[p] = "done"
            /\ UNCHANGED << size_counter, filtered_sizes, out_file, confirmed,
                            asked >>

C3_SignatureSuppressed == [][C3_Step]_vars

\* A purple line for a size that is not filtered: only a signature match
\* prints one; and the counters were not empty at that time.
C3_Witness ==
    \E p \in Paths : \E s \in Sizes :
        /\ last_line = << "purple", p, s >>
        /\ s \notin filtered_sizes
        /\ size_counter[s] > 0

\* ---------------------------------------------------------------- C4
\* C4: never more than `threads` futures are admitted and unfinished, and
\* the iterator yields a path only while fewer than `threads` are.
C4_Bounded ==
    /\ [](Cardinality({ p \in Paths : pc[p] \notin { "queued", "done" } }) <= threads)
    /\ [][next_path' # next_path =>
            Cardinality({ p \in Paths : pc[p] \notin { "queued", "done" } }) < threads]_vars

\* The pool is full while paths are still waiting.
C4_Witness ==
    /\ threads = 2
    /\ Cardinality({ p \in Paths : pc[p] \notin { "queued", "done" } }) = 2
    /\ next_path <= NumPaths

C6_Step ==
    \A p \in Paths :
        (last_line' = << "error", p >> /\ last_line # << "error", p >>) =>
            /\ pc[p] \in { "start", "send", "response" }
            /\ pc'[p] = "done"
            /\ \A q \in Paths \ {p} : pc'[q] = pc[q]
            /\ UNCHANGED << size_counter, filtered_sizes, out_file, confirmed,
                            next_path, stream_done, locks >>
            /\ ~finished'

C7_RunEnds == <>finished

\* ---------------------------------------------------------------- C8
\* C8: at most one task is between taking the detection-state lock and its
\* return, that task is the holder of the lock, and the lock is free when no
\* task is.
C8_OneInSection ==
    /\ Cardinality(InSection) <= 1
    /\ \A p \in InSection : state_lock = p
    /\ InSection = {} => state_lock = 0

\* A task is inside the section while the response of another waits for the
\* lock.
C8_Witness ==
    \E p \in InSection : \E q \in Paths \ {p} : pc[q] = "lock_state"

\* ---------------------------------------------------------------- C9
\* C9: at most one question is pending; while one is, the only step taken is
\* the answer: no other task moves, no path is admitted, nothing is written
\* to the result file, the run does not end, and the only line printed is
\* the asking task's own finding line.
C9_Step ==
    \A p \in Paths :
        pc[p] = "prompt" =>
            /\ \A q \in Paths \ {p} : pc'[q] = pc[q]
            /\ UNCHANGED << next_path, stream_done, out_file, asked, finished >>
            /\ pc'[p] \in { "prompt", "lock_file", "done" }
            /\ last_line' # last_line =>
                  /\ pc'[p] # "prompt"
                  /\ last_line' \in { << "purple", p, Len(content[p]) >>,
                                      << "red", p, Len(content[p]) >> }

C9_PromptPausesScan ==
    /\ [][C9_Step]_vars
    /\ [](Cardinality({ p \in Paths : pc[p] = "prompt" }) <= 1)

\* A question is pending while the pool has room and a path is still
\* waiting to be admitted.
C9_Witness ==
    \E p \in Paths :
        /\ pc[p] = "prompt"
        /\ threads = 2
        /\ \A q \in Paths \ {p} : pc[q] \in { "queued", "done" }
        /\ next_path <= NumPaths

\* ---------------------------------------------------------------- C10
\* C10: the step that handles a response whose status is not 2xx ends the
\* task and changes nothing else: counters, filtered sizes, result file,
\* Confirmed findings, questions and the printed output stay as they were.
C10_Step ==
    \A p \in Paths :
        (/\ pc[p] = "response"
         /\ pc'[p] # "response"
         /\ ~(200 <= status[p] /\ status[p] <= 299)) =>
            /\ pc'[p] = "done"
            /\ UNCHANGED << size_counter, filtered_sizes, out_file, confirmed,
                            asked, last_line, locks, finished >>

C10_Non2xxIsAbsence == [][C10_Step]_vars

\* The first path is finished and nothing was ever printed: only a non-2xx
\* response ends a task silently.
C10_Witness ==
    /\ pc[1] = "done"
    /\ last_line = << "start" >>

\* ---------------------------------------------------------------- C11
\* A wordlist line that holds nothing but whitespace.
Blank(line) == \A i \in 1..Len(line) : line[i] \in Whitespace

\* A wordlist line whose first character is '#'.
Comment(line) == Len(line) >= 1 /\ line[1] = "#"

\* The lines of a wordlist that are neither blank nor comments, in order.
Remaining(lines) == SelectSeq(lines, LAMBDA l : ~Blank(l) /\ ~Comment(l))

\* The wordlist ["admin", "#comment", "", "login"].
Example == << << "a" >>, << "#", "c" >>, << >>, << "l" >> >>

\* C11: no probe exists before the wordlist is read; once it is read the
\* candidate paths are exactly the lines that are neither blank nor comments,
\* in order, and there is one probe per candidate and no other; no probe is
\* started when no line remains; when the run has ended every candidate has
\* been probed; for the example wordlist the candidates are admin and login
\* and the run ends with exactly those two probed.
C11_OnlyCandidatesProbed ==
    /\ DOMAIN pc = 1..Len(paths)
    /\ stage = "load" => paths = << >>
    /\ stage # "load" =>
        /\ paths = Remaining(wordlist)
        /\ (stage = "fatal") <=> (Remaining(wordlist) = << >>)
    /\ stage = "fatal" => next_path = 1 /\ ~finished
    /\ finished => \A k \in 1..Len(Remaining(wordlist)) : pc[k] = "done"
    /\ (wordlist = Example /\ stage # "load") =>
        /\ paths = << << "a" >>, << "l" >> >>
        /\ finished => { confirmed[i][1] : i \in 1..Len(confirmed) } = { 1, 2 }

\* The run over the example wordlist has ended with both findings written.
C11_Witness ==
    /\ wordlist = Example
    /\ finished
    /\ Len(out_file) = 2

\* ---------------------------------------------------------------- C12
\* How many entries of a log of << path, size >> have size s.
CountOf(log, s) == Cardinality({ i \in 1..Len(log) : log[i][2] = s })

\* How many questions were asked about size s.
Questions(s) == Cardinality({ i \in 1..Len(asked) : asked[i][2] = s })

\* The operator's line that confirms: y in either case.
Yes == { "y", "Y" }

\* The pending question of task p is answered in this step.
Answered(p) == pc[p] = "prompt" /\ pc'[p] # "prompt"

\* C12: the step that takes the operator's "y" for the question about size s
\* adds s to filtered_sizes, prints the asking response purple, ends its task
\* and writes nothing; from then on no response of size s is Confirmed or
\* written: the asking response is in neither log, and the Confirmed findings
\* of size s stay the 4 that came before each question (5 for each declined
\* one).
C12_Step ==
    \A p \in Paths :
        LET s == Len(content[p]) IN
        (Answered(p) /\ stdin_line \in Yes) =>
            /\ filtered_sizes' = filtered_sizes \cup { s }
            /\ last_line' = << "purple", p, s >>
            /\ pc'[p] = "done"
            /\ UNCHANGED << out_file, confirmed >>

C12_ConfirmSuppresses ==
    /\ [][C12_Step]_vars
    /\ [](\A s \in filtered_sizes :
            /\ CountOf(confirmed, s) = 5 * Questions(s) - 1
            /\ \A i \in 1..Len(asked) :
                (asked[i][2] = s /\ \A j \in (i + 1)..Len(asked) : asked[j][2] # s)
                    => /\ asked[i] \notin Range(confirmed)
                       /\ asked[i] \notin Range(out_file))

\* The operator confirmed the question of path q about size s: q's response
\* is in no log, the four findings before it are in the file, and a response
\* of size s from another path has just been suppressed.
C12_Witness ==
    \E s \in filtered_sizes : \E p \in Paths : \E q \in Paths \ { p } :
        /\ asked = << << q, s >> >>
        /\ pc[q] = "done"
        /\ << q, s >> \notin Range(out_file)
        /\ CountOf(out_file, s) = 4
        /\ last_line = << "purple", p, s >>

\* ---------------------------------------------------------------- C13
\* The place of entry e in a log that holds it.
IndexOf(log, e) == CHOOSE k \in 1..Len(log) : log[k] = e

\* Questions i < j are about the same size, with none about it in between.
NextAbout(i, j) ==
    /\ i < j
    /\ asked[i][2] = asked[j][2]
    /\ \A m \in (i + 1)..(j - 1) : asked[m][2] # asked[i][2]

\* C13: the step that takes any other line than "y" for the question about
\* size s leaves filtered_sizes alone, puts the counter of s back to 0,
\* makes the asking response a Confirmed finding (red line, on its way to the
\* file), and once its task has ended its line is in the file; and between
\* that response and the next question about s lie exactly 4 Confirmed
\* findings of size s, the next question being raised by the 5th counted one.
C13_Step ==
    \A p \in Paths :
        LET s == Len(content[p]) IN
        (Answered(p) /\ stdin_line \notin Yes) =>
            /\ filtered_sizes' = filtered_sizes
            /\ s \notin filtered_sizes'
            /\ size_counter'[s] = 0
            /\ confirmed' = Append(confirmed, << p, s >>)
            /\ last_line' = << "red", p, s >>
            /\ pc'[p] = "lock_file"

C14_ConsecutiveCount ==
    \A p \in Paths :
        pc[p] = "prompt" =>
            /\ Len(confirmed) >= 4
            /\ \A i \in (Len(confirmed) - 3)..Len(confirmed) :
                  confirmed[i][2] = Len(content[p])

\* ---------------------------------------------------------------- C15
\* C15: the step that classifies a response whose size is in filtered_sizes
\* or whose body holds a stored fragment leaves size_counter, filtered_sizes
\* and the signatures as they were; and a classifying step that changes a
\* counter classifies a response for which neither test fired, and changes
\* the counter of that response's size only.
C15_Step ==
    \A p \in Paths :
        LET s == Len(content[p]) IN
        /\ (Classified(p) /\ (s \in filtered_sizes \/ Matches(content[p]))) =>
              UNCHANGED << size_counter, filtered_sizes, content_signatures >>
        /\ (Classified(p) /\ size_counter' # size_counter) =>
              /\ s \notin filtered_sizes
              /\ ~Matches(content[p])
              /\ \A t \in Sizes \ { s } : size_counter'[t] = size_counter[t]

C15_SuppressionChangesNothing == [][C15_Step]_vars

\* After size 1 was filtered with its counter at 5, a response of another,
\* unfiltered size has just been suppressed: its body held the fragment.
C15_Witness ==
    \E p \in Paths : \E s \in Sizes \ filtered_sizes :
        /\ filtered_sizes = { 1 }
        /\ size_counter[1] = 5
        /\ last_line = << "purple", p, s >>
        /\ asked[1][1] # p

\* ---------------------------------------------------------------- C16
\* C16: across every step filtered_sizes after the step includes
\* filtered_sizes before it, and the signature set is the one loaded at
\* startup, unchanged by every step.
C16_FiltersOnlyGrow ==
    /\ [][/\ filtered_sizes \subseteq filtered_sizes'
          /\ content_signatures' = content_signatures]_vars
    /\ [](content_signatures = FilterFile)

\* The operator has confirmed two sizes, one after the other.
C16_Witness ==
    /\ Cardinality(filtered_sizes) = 2
    /\ Len(asked) >= 2

Earlier(s) == { i \in 1..(Len(asked) - 1) : asked[i][2] = s }

\* The latest of them.
Previous(s) == CHOOSE i \in Earlier(s) : \A j \in Earlier(s) : j <= i

\* How many lines of size s the file holds from place `from` on.
LinesFrom(from, s) ==
    Cardinality({ k \in from..Len(out_file) : out_file[k][2] = s })

C19_CountersAndFilters ==
    /\ [](asked = << >> => filtered_sizes = {})
    /\ [][filtered_sizes' # filtered_sizes =>
            \E p \in Paths :
                /\ Answered(p)
                /\ stdin_line \in Yes
                /\ filtered_sizes' = filtered_sizes \cup { Len(content[p]) }]_vars
    /\ [](InSection = {} =>
            /\ \A s \in filtered_sizes : size_counter[s] = 5
            /\ \A s \in Sizes \ filtered_sizes : size_counter[s] \in 0..4)
    /\ [](\A s \in Sizes : size_counter[s] \in 0..5)

\* No task is inside the section; one size is filtered with its counter at
\* 5 and the other has been counted without reaching the threshold.
C19_Witness ==
    /\ InSection = {}
    /\ filtered_sizes = { 1 }
    /\ size_counter[1] = 5
    /\ size_counter[2] \in 1..4

====
